---- MODULE Spec2Model ----
(***************************************************************************)
(* pysmu (bindings/python/pysmu/libsmu.pyx): the Python classes Session,   *)
(* Device and Channel over the C++ smu::Session / smu::Device engine.      *)
(*                                                                         *)
(* The binding's methods are modelled from libsmu.pyx.  The engine they    *)
(* call (cpp_libsmu) is not part of the sources at hand; its behaviour is  *)
(* modelled from the specification and kept in the Engine* definitions.    *)
(***************************************************************************)
EXTENDS Integers, Sequences, FiniteSets, TLC

(* ------------------------------ bounds -------------------------------- *)
\* devices attached to the system
NumDevices == 2
\* the value the client gives Session.queue_size before it streams
QueueSize == 2
\* samples one device acquires beyond a full queue
MaxOver == 2
\* samples one device plays back over the whole behaviour
MaxPlay == 6
\* largest num_samples given to read
MaxRead == 2
\* streams started over the whole behaviour
MaxRuns == 2
\* longest buffer given to write
MaxLen == 3
\* hotplug events
MaxEvents == 2

Devices == 1..NumDevices
Chans == {0, 1}
\* the timeout arguments tried: block, do not block, wait a bounded time
Timeouts == {-1, 0, 1}
\* the transport's negative status codes tried
NegCodes == {-1, -4}
\* sample-count arguments tried for start: invalid, continuous, finite (up
\* to a full queue)
StartCounts == -1..QueueSize
\* samples one device acquires over the whole behaviour
MaxAcq == QueueSize + MaxOver

Min(a, b) == IF a < b THEN a ELSE b
Max(a, b) == IF a > b THEN a ELSE b

(* --------------------------- value conversions ------------------------- *)
\* The engine's sample for acquisition index i: array[float, four]
\* (A current, A voltage, B current, B voltage).  The four values are
\* distinct per index, so a sample identifies its acquisition index.
EngineSample(i) == <<4 * i, 4 * i + 1, 4 * i + 2, 4 * i + 3>>

\* libsmu.pyx:376  ((x[0], x[1]), (x[2], x[3]))
PySample(x) == <<(<<x[1], x[2]>>), (<<x[3], x[4]>>)>>

\* acquisition index of a (current, voltage) pair of either channel
SliceIndex(p) == p[1] \div 4

\* libsmu.pyx:322  cdef vector[float] buf = data: each Python float (a
\* double) becomes a C float, rounded to 24 significant bits (to nearest,
\* ties to even).  Values are whole numbers here, below 2^25: up to 2^24
\* each is exact, above that only the even ones are.
ToFloat(v) ==
  IF v <= 2^24 \/ v % 2 = 0 THEN v
  ELSE IF (v \div 2) % 2 = 0 THEN 2 * (v \div 2)
  ELSE 2 * (v \div 2) + 2

ToFloatVector_Exact(data) == data
ToFloatVector(data) == [k \in 1..Len(data) |-> ToFloat(data[k])]

\* the buffers written: 2^24 + 1, 2^24 + 2, ... (a float holds the even
\* ones only), one buffer of each length
Ramp(n) == [k \in 1..n |-> 2^24 + k]
Buffers == {Ramp(n) : n \in 1..MaxLen}
\* what an uninitialised C int may hold
UninitInts == {-7, 0, 7}

\* libsmu.pyx:376  the list comprehension over buf
PyList_DropsLast(buf) == [k \in 1..(Len(buf) - 1) |-> PySample(buf[k])]
PyList_Rotated(buf) ==
  [k \in 1..Len(buf) |-> PySample(buf[IF k = Len(buf) THEN 1 ELSE k + 1])]
PyList_Reversed(buf) == [k \in 1..Len(buf) |-> PySample(buf[Len(buf) + 1 - k])]
PyList(buf) == [k \in 1..Len(buf) |-> PySample(buf[k])]

\* libsmu.pyx:515  [x[self.chan] for x in ...]
ChannelSlice(samples, chan) == [k \in 1..Len(samples) |-> samples[k][chan + 1]]

(* ------------------------------- state --------------------------------- *)
VARIABLES
  py,          \* major version of the interpreter running the binding: 2 or 3
  attached,    \* devices plugged into the system
  available,   \* Session._session.m_available_devices
  devices,     \* Session._session.m_devices
  queue_size,  \* Session._session.m_queue_size
  cap,         \* queue capacity in force (fixed when the session is configured)
  state,       \* session state: IDLE, CONFIGURED, RUNNING, CANCELLED
  cancelled,   \* Session._session.cancelled()
  rate,        \* configured sample rate (0: each device's default)
  run,         \* the stream started last: [n, rate, cfg, no]
  loop,        \* loop[d]: device d's transfer loop is active
  done,        \* done[d]: samples device d acquired in the current stream
  acq,         \* acq[d]: samples device d acquired in all (the acquisition index)
  inq,         \* inq[d]: input queue, acquisition indices, oldest first
  dropped,     \* dropped[d]: samples dropped from inq[d] since the previous read
  out,         \* out[d][c]: output buffer of channel c
  played,      \* played[d][c]: values the device has played on channel c
  mode,        \* mode[d][c]: the engine's mode value of channel c
  rd,          \* the Device.read / Channel.read call in progress
  sc,          \* the blocking Session call in progress: none, cancel, wait
  hist,        \* hist[d]: what the reads of device d delivered so far
  last,        \* outcome of the API call that completed last
  slot,        \* the engine's hotplug callback slots: [attach, detach]
  alive,       \* the Python function objects something still references
  hot,         \* the hotplug event the engine is handling
  events,      \* number of hotplug events so far
  cbs,         \* the Python calls _hotplug_callback made, oldest first
  samba        \* devices rebooted into their bootloader

vars == <<py, attached, available, devices, queue_size, cap, state, cancelled, rate, run,
          loop, done, acq, inq, dropped, out, played, mode, rd, sc, hist, last,
          slot, alive, hot, events, cbs, samba>>

\* hotplug: the callback slots, the function objects and the events
hotVars == <<slot, alive, hot, events, cbs>>

\* what no call of the session or of a device changes
envVars == <<py, attached, hotVars, samba>>

NoRead == [on |-> FALSE, dev |-> 0, want |-> 0, timeout |-> 0, etimeout |-> 0,
           via |-> -1, buf |-> <<>>, first |-> FALSE]

\* kind: none, return, ValueError, SessionError, DeviceError, RuntimeError,
\* AttributeError.  For a read: its arguments n, t, via; engk, the number of
\* samples the engine reported dropped; prev, the acquisition index of the
\* sample delivered before this read; first, no read came before; imm, the
\* read completed without waiting; canc, the session was cancelled.  For a
\* call on a device: dev; follows: what the call came right after.  eng: the
\* number of engine calls the call issued.
NoOut == [op |-> "none", kind |-> "none", code |-> 0, val |-> <<>>, warn |-> 0,
          dev |-> 0, follows |-> "", n |-> 0, t |-> 0, via |-> -1, engk |-> 0, prev |-> 0,
          first |-> FALSE, imm |-> FALSE, canc |-> FALSE, eng |-> 0]

\* buf, cyclic, pos: the engine's buffer, its wraparound flag and the next
\* position to play.  data, asked, at: the Python data and the cyclic
\* argument of the write that filled it, and acq[d] at that write; kind,
\* code, engk: how that write ended (as in last).
NoBuf == [buf |-> <<>>, cyclic |-> FALSE, pos |-> 0, data |-> <<>>,
          asked |-> FALSE, at |-> 0, kind |-> "none", code |-> 0, engk |-> 0]
\* the stream started last: its sample count, the rate and whether the
\* session was configured when it started, and its number
NoRun == [n |-> 0, rate |-> 0, cfg |-> FALSE, no |-> 0]
\* last: acquisition index of the sample delivered last; dev: samples
\* delivered by Device.read; ch: (current, voltage) pairs delivered by
\* Channel.read of channel A and of channel B; any: a read was issued.
NoHist == [last |-> 0, dev |-> 0, ch |-> <<0, 0>>, any |-> FALSE]
\* the Python functions the client has defined; slot value 0: none registered
Funcs == {1, 2}
NoSlots == [attach |-> 0, detach |-> 0]
\* ev: none, attach, detach; dev: the device; no: the event's number;
\* member: the device was in the session when the event came; resolved: the
\* engine has updated its device sets
NoHot == [ev |-> "none", dev |-> 0, no |-> 0, member |-> FALSE, resolved |-> FALSE]

(* ------------------------ engine: the input queue ---------------------- *)
\* The device loop enqueues sample i; a full queue drops its oldest sample.
EnginePush(q, i, c) == IF Len(q) < c THEN Append(q, i) ELSE Append(Tail(q), i)

\* What the engine's read hands back when it completes with buffer buf:
\* the samples, and a RuntimeError "dropped <k> ..." when k > 0 samples were
\* dropped since the previous read.
EngineReadOutcome(buf, k) ==
  [exc |-> IF k > 0 THEN "runtime" ELSE "none",
   msg |-> IF k > 0 THEN <<"dropped", k>> ELSE <<>>,
   ret |-> Len(buf),
   buf |-> [j \in 1..Len(buf) |-> EngineSample(buf[j])]]

\* A read may complete: it has all it asked for, it does not wait, its
\* wait may expire, or the session is cancelled.
EngineReadReady(r) ==
  \/ Len(r.buf) = r.want
  \/ r.etimeout >= 0
  \/ cancelled

(* ------------------------ binding: Device.read ------------------------- *)
\* e.message.startswith('dropped ')
StartsWithDropped(msg) == Len(msg) > 0 /\ msg[1] = "dropped"

\* libsmu.pyx:347/365  the arguments Device.read hands to the engine
ReadArgs_NeverBlocks(num_samples, timeout) == [want |-> num_samples, timeout |-> 0]
ReadArgs_AlwaysBlocks(num_samples, timeout) == [want |-> num_samples, timeout |-> -1]
ReadArgs(num_samples, timeout) == [want |-> num_samples, timeout |-> timeout]

\* libsmu.pyx:361-376.  eng is what self._device.read did: it raised
\* (exc: system, runtime) or returned ret, having filled buf.  ret starts
\* at 0 and keeps it when the call raised.  BaseException.message exists
\* on Python 2 only: on Python 3 evaluating e.message raises AttributeError.
\* warn is the number of dropped samples the call reports to its caller:
\* the except clause drops e, so nothing of the engine's report gets out.
Raised(kind, code) == [kind |-> kind, code |-> code, val |-> <<>>, warn |-> 0]

DeviceReadResult_LosesBuf(eng, pyv) ==
  IF eng.exc = "system" THEN Raised("DeviceError", 0)
  ELSE IF eng.exc = "runtime" /\ pyv = 3 THEN Raised("AttributeError", 0)
  ELSE IF eng.exc = "runtime" /\ ~StartsWithDropped(eng.msg)
    THEN Raised("RuntimeError", 0)
  ELSE IF eng.exc = "runtime"
    THEN [kind |-> "return", code |-> 0, val |-> <<>>, warn |-> 0]
  ELSE IF eng.ret < 0 THEN Raised("DeviceError", eng.ret)
  ELSE [kind |-> "return", code |-> 0, val |-> PyList(eng.buf), warn |-> 0]
DeviceReadResult(eng, pyv) ==
  IF eng.exc = "system" THEN Raised("DeviceError", 0)
  ELSE IF eng.exc = "runtime" /\ pyv = 3 THEN Raised("AttributeError", 0)
  ELSE IF eng.exc = "runtime" /\ ~StartsWithDropped(eng.msg)
    THEN Raised("RuntimeError", 0)
  ELSE LET ret == IF eng.exc = "none" THEN eng.ret ELSE 0 IN
    IF ret < 0
      THEN Raised("DeviceError", ret)
      ELSE [kind |-> "return", code |-> 0, val |-> PyList(eng.buf), warn |-> 0]

\* libsmu.pyx:513-515  Channel.read (via = chan) over Device.read (via = -1)
ReadResult(eng, pyv, via) ==
  LET r == DeviceReadResult(eng, pyv) IN
  IF via >= 0 /\ r.kind = "return"
    THEN [r EXCEPT !.val = ChannelSlice(r.val, via)]
    ELSE r

\* the acquisition indices of a read's result
ResultIndices(val, via) ==
  [k \in 1..Len(val) |-> IF via >= 0 THEN SliceIndex(val[k])
                                     ELSE SliceIndex(val[k][1])]

(* ----------------------------- outcomes -------------------------------- *)
\* the outcome of a call that reached its engine call
Outcome(op, kind, code) ==
  [NoOut EXCEPT !.op = op, !.kind = kind, !.code = code, !.eng = 1]

\* libsmu.pyx:169-170, 184-185, 199-200, 505-506, 418-419: the argument
\* check at the head of a method raises before the engine call is reached
Rejected(op) == [NoOut EXCEPT !.op = op, !.kind = "ValueError"]

\* libsmu.pyx:142, 149, 174, 189, 204, 214  "if errcode: raise SessionError"
SessionResult_NeverRaises(op, errcode) == Outcome(op, "return", 0)
SessionResult_AlwaysRaises(op, errcode) == Outcome(op, "SessionError", errcode)
SessionResult_PositiveOnly(op, errcode) ==
  IF errcode > 0 THEN Outcome(op, "SessionError", errcode)
                 ELSE Outcome(op, "return", 0)
SessionResult_RaisesOnZero(op, errcode) ==
  IF errcode = 0 THEN Outcome(op, "SessionError", errcode)
                 ELSE Outcome(op, "return", 0)
SessionResult(op, errcode) ==
  IF errcode # 0 THEN Outcome(op, "SessionError", errcode)
                 ELSE Outcome(op, "return", 0)

NoLoops == \A d \in Devices : ~loop[d]
Streaming == state \in {"RUNNING", "CANCELLED"}

(* ------------------------ engine: the session -------------------------- *)
\* configure(sample_rate): refused while streaming is active; otherwise the
\* rate and the queue capacity of the next run are fixed.
EngineConfigure(sample_rate) ==
  IF Streaming
    THEN [err |-> -1, state |-> state, rate |-> rate, cap |-> cap]
    ELSE [err |-> 0, state |-> "CONFIGURED", rate |-> sample_rate,
          cap |-> queue_size]

\* One transfer of device d's loop completes: sample acq[d] + 1 is acquired
\* and enqueued, and each channel with an output buffer plays its next value.
PlayValue(o) ==
  IF o.pos < Len(o.buf) THEN o.buf[o.pos + 1]
  ELSE IF o.cyclic THEN o.buf[1]
  ELSE o.buf[Len(o.buf)]

PlayAdvance(o) ==
  IF o.buf = <<>> THEN o
  ELSE IF o.pos < Len(o.buf) THEN [o EXCEPT !.pos = o.pos + 1]
  ELSE IF o.cyclic THEN [o EXCEPT !.pos = 1]
  ELSE o

(* --------------------- binding: Session.configure ---------------------- *)
\* libsmu.pyx:159-175
Configure(sample_rate) ==
  /\ sc = "none"
  /\ IF sample_rate < 0
       THEN /\ last' = Rejected("configure")
            /\ UNCHANGED <<state, rate, cap>>
       ELSE LET e == EngineConfigure(sample_rate) IN
            /\ state' = e.state
            /\ rate' = e.rate
            /\ cap' = e.cap
            /\ last' = SessionResult("configure", e.err)
  /\ UNCHANGED <<envVars, available, devices, queue_size, cancelled, run, loop, done,
                 acq, inq, dropped, out, played, mode, rd, sc, hist>>

(* ----------------------- binding: Session.start ------------------------ *)
\* libsmu.pyx:192-205.  terr is the transport's answer to the engine's
\* start (0: accepted).  The engine starts a stream from IDLE or CONFIGURED;
\* a start while a stream is active is not covered.
Start(samples, terr) ==
  /\ sc = "none"
  /\ ~Streaming
  /\ run.no < MaxRuns
  /\ IF samples < 0
       THEN /\ last' = Rejected("start")
            /\ UNCHANGED <<state, cancelled, run, loop, done>>
       ELSE IF terr # 0
       THEN /\ state' = "IDLE"
            /\ last' = SessionResult("start", terr)
            /\ UNCHANGED <<cancelled, run, loop, done>>
       ELSE /\ state' = IF devices = {} THEN "IDLE" ELSE "RUNNING"
            /\ cancelled' = FALSE
            /\ run' = [n |-> samples, rate |-> rate, cfg |-> (state = "CONFIGURED"),
                       no |-> run.no + 1]
            /\ loop' = [d \in Devices |-> d \in devices]
            /\ done' = [d \in Devices |-> 0]
            /\ last' = SessionResult("start", 0)
  /\ UNCHANGED <<envVars, available, devices, queue_size, cap, rate, acq, inq, dropped,
                 out, played, mode, rd, sc, hist>>

(* ----------------------- engine: the device loop ----------------------- *)
LoopTransfer(d, bound) ==
  /\ loop[d]
  /\ state = "RUNNING"
  /\ run.n = 0 \/ done[d] < run.n
  /\ acq[d] < bound
  /\ acq' = [acq EXCEPT ![d] = @ + 1]
  /\ done' = [done EXCEPT ![d] = @ + 1]
  /\ inq' = [inq EXCEPT ![d] = EnginePush(@, acq[d] + 1, cap)]
  /\ dropped' = [dropped EXCEPT ![d] = IF Len(inq[d]) < cap THEN @ ELSE @ + 1]
  /\ played' = [played EXCEPT ![d] =
        [c \in Chans |-> IF out[d][c].buf = <<>> THEN @[c]
                         ELSE Append(@[c], PlayValue(out[d][c]))]]
  /\ out' = [out EXCEPT ![d] = [c \in Chans |-> PlayAdvance(out[d][c])]]
  /\ LET fin == run.n > 0 /\ done[d] + 1 = run.n IN
     /\ loop' = [loop EXCEPT ![d] = ~fin]
     /\ state' = IF fin /\ (\A e \in Devices \ {d} : ~loop[e]) THEN "IDLE" ELSE state
  /\ UNCHANGED <<envVars, available, devices, queue_size, cap, cancelled, rate, run,
                 mode, rd, sc, hist, last>>

LoopStep(d) == LoopTransfer(d, MaxAcq)

\* The loop sees the cancellation flag at a transfer boundary and stops.
LoopAck(d) ==
  /\ loop[d]
  /\ state = "CANCELLED"
  /\ loop' = [loop EXCEPT ![d] = FALSE]
  /\ UNCHANGED <<envVars, available, devices, queue_size, cap, state, cancelled, rate,
                 run, done, acq, inq, dropped, out, played, mode, rd, sc, hist, last>>

(* ----------------------- binding: Session.cancel ----------------------- *)
\* libsmu.pyx:207-215, the call.  The engine's cancel does nothing and
\* answers 0 unless a stream is running; then it raises the cancellation
\* flag and blocks until every loop has stopped.
CancelCall ==
  /\ sc = "none"
  /\ IF state = "RUNNING"
       THEN /\ state' = "CANCELLED"
            /\ cancelled' = TRUE
            /\ sc' = "cancel"
            /\ UNCHANGED last
       ELSE /\ last' = SessionResult("cancel", 0)
            /\ UNCHANGED <<state, cancelled, sc>>
  /\ UNCHANGED <<envVars, available, devices, queue_size, cap, rate, run, loop, done,
                 acq, inq, dropped, out, played, mode, rd, hist>>

\* libsmu.pyx:213-215, the return: every loop has acknowledged.
CancelReturn(errcode) ==
  /\ sc = "cancel"
  /\ NoLoops
  /\ state' = "IDLE"
  /\ sc' = "none"
  /\ last' = SessionResult("cancel", errcode)
  /\ UNCHANGED <<envVars, available, devices, queue_size, cap, cancelled, rate, run,
                 loop, done, acq, inq, dropped, out, played, mode, rd, hist>>

(* ------------------ binding: Session.wait_for_completion --------------- *)
\* libsmu.pyx:217-219
WaitCall ==
  /\ sc = "none"
  /\ sc' = "wait"
  /\ UNCHANGED <<envVars, available, devices, queue_size, cap, state, cancelled, rate,
                 run, loop, done, acq, inq, dropped, out, played, mode, rd, hist,
                 last>>

WaitReturn ==
  /\ sc = "wait"
  /\ ~Streaming
  /\ NoLoops
  /\ sc' = "none"
  /\ last' = Outcome("wait", "return", 0)
  /\ UNCHANGED <<envVars, available, devices, queue_size, cap, state, cancelled, rate,
                 run, loop, done, acq, inq, dropped, out, played, mode, rd, hist>>

(* ----------------- binding: Device.read / Channel.read ----------------- *)
\* libsmu.pyx:365-376: the engine's read of device d completes with buffer
\* buf and the binding builds the result.
ReadComplete(d, r, buf, imm) ==
  LET eng == EngineReadOutcome(buf, dropped[d])
      res == ReadResult(eng, py, r.via)
      idx == ResultIndices(res.val, r.via)
      k == Len(res.val) IN
  /\ last' = [NoOut EXCEPT !.op = "read", !.kind = res.kind, !.code = res.code,
                !.val = res.val, !.warn = res.warn, !.n = r.want, !.t = r.timeout, !.via = r.via,
                !.engk = dropped[d], !.prev = hist[d].last, !.first = r.first,
                !.imm = imm, !.canc = cancelled, !.eng = 1]
  /\ hist' = [hist EXCEPT ![d] =
       IF res.kind # "return" \/ k = 0 THEN [@ EXCEPT !.any = TRUE]
       ELSE [last |-> idx[k], any |-> TRUE,
             dev |-> IF r.via < 0 THEN @.dev + k ELSE @.dev,
             ch |-> [c \in 1..2 |-> IF r.via = c - 1 THEN @.ch[c] + k
                                                     ELSE @.ch[c]]]]
  /\ dropped' = [dropped EXCEPT ![d] = 0]

\* libsmu.pyx:349-376, 513-515: the call.  The engine takes what the input
\* queue holds, up to the number asked for, and completes at once when
\* that is all it may wait for; otherwise the caller blocks.
ReadCall(d, num_samples, timeout, via) ==
  /\ ~rd.on
  /\ d \in devices
  /\ LET a == ReadArgs(num_samples, timeout)
         take == Min(a.want, Len(inq[d]))
         r == [on |-> TRUE, dev |-> d, want |-> a.want, timeout |-> timeout,
               etimeout |-> a.timeout, via |-> via,
               buf |-> SubSeq(inq[d], 1, take), first |-> ~hist[d].any] IN
     /\ inq' = [inq EXCEPT ![d] = SubSeq(@, take + 1, Len(@))]
     /\ IF Len(r.buf) = r.want \/ r.etimeout = 0 \/ cancelled
          THEN /\ ReadComplete(d, r, r.buf, TRUE)
               /\ UNCHANGED rd
          ELSE /\ rd' = r
               /\ hist' = [hist EXCEPT ![d].any = TRUE]
               /\ UNCHANGED <<dropped, last>>
  /\ UNCHANGED <<envVars, available, devices, queue_size, cap, state, cancelled, rate,
                 run, loop, done, acq, out, played, mode, sc>>

\* A blocked read takes samples as the loop delivers them.
ReadFill ==
  /\ rd.on
  /\ Len(rd.buf) < rd.want
  /\ inq[rd.dev] # <<>>
  /\ LET take == Min(rd.want - Len(rd.buf), Len(inq[rd.dev])) IN
     /\ rd' = [rd EXCEPT !.buf = @ \o SubSeq(inq[rd.dev], 1, take)]
     /\ inq' = [inq EXCEPT ![rd.dev] = SubSeq(@, take + 1, Len(@))]
  /\ UNCHANGED <<envVars, available, devices, queue_size, cap, state, cancelled, rate,
                 run, loop, done, acq, dropped, out, played, mode, sc, hist, last>>

\* libsmu.pyx:365-376: a blocked read returns.
ReadReturn ==
  /\ rd.on
  /\ EngineReadReady(rd)
  /\ ReadComplete(rd.dev, rd, rd.buf, FALSE)
  /\ rd' = NoRead
  /\ UNCHANGED <<envVars, available, devices, queue_size, cap, state, cancelled, rate,
                 run, loop, done, acq, inq, out, played, mode, sc>>

\* libsmu.pyx:336-347  Device.get_samples
GetSamples(d, num_samples) == ReadCall(d, num_samples, -1, -1)

\* libsmu.pyx:365-374: the engine's read fails at once: it raises
\* SystemError, raises a RuntimeError that is no overflow, or returns the
\* transport's negative status.
EngineReadFailure(f, r) ==
  [exc |-> IF f = "status" THEN "none" ELSE f, msg |-> <<"usb", 0>>,
   ret |-> r, buf |-> <<>>]

ReadFail(d, timeout, via, f, r) ==
  /\ ~rd.on
  /\ d \in devices
  /\ LET res == ReadResult(EngineReadFailure(f, r), py, via) IN
     last' = [NoOut EXCEPT !.op = "read", !.kind = res.kind, !.code = res.code,
                !.val = res.val, !.t = timeout, !.via = via, !.imm = TRUE,
                !.prev = hist[d].last, !.canc = cancelled, !.eng = 1]
  /\ UNCHANGED <<envVars, available, devices, queue_size, cap, state, cancelled, rate,
                 run, loop, done, acq, inq, dropped, out, played, mode, rd, sc, hist>>

(* -------------------- the input side: specification -------------------- *)
InitCommon ==
  /\ py \in {2, 3}
  /\ attached = Devices
  /\ queue_size = QueueSize
  /\ cap = queue_size
  /\ state = "IDLE"
  /\ cancelled = FALSE
  /\ rate = 0
  /\ run = NoRun
  /\ loop = [d \in Devices |-> FALSE]
  /\ done = [d \in Devices |-> 0]
  /\ acq = [d \in Devices |-> 0]
  /\ inq = [d \in Devices |-> <<>>]
  /\ dropped = [d \in Devices |-> 0]
  /\ out = [d \in Devices |-> [c \in Chans |-> NoBuf]]
  /\ played = [d \in Devices |-> [c \in Chans |-> <<>>]]
  /\ mode = [d \in Devices |-> [c \in Chans |-> 0]]
  /\ rd = NoRead
  /\ sc = "none"
  /\ hist = [d \in Devices |-> NoHist]
  /\ last = NoOut
  /\ slot = NoSlots
  /\ alive = Funcs
  /\ hot = NoHot
  /\ events = 0
  /\ cbs = <<>>
  /\ samba = {}

\* One device has been scanned and added; the client reads from it.
InitRead ==
  /\ InitCommon
  /\ available = {1}
  /\ devices = {1}

NextRead ==
  \/ \E n \in StartCounts, e \in {0} \cup NegCodes : Start(n, e)
  \/ \E d \in Devices : LoopStep(d)
  \/ \E d \in Devices : LoopAck(d)
  \/ CancelCall
  \/ \E e \in {0} \cup NegCodes : CancelReturn(e)
  \/ \E d \in Devices, n \in 0..MaxRead, t \in Timeouts : ReadCall(d, n, t, -1)
  \/ \E d \in Devices, n \in 0..MaxRead : GetSamples(d, n)
  \/ ReadFill
  \/ ReadReturn
  \/ \E d \in Devices, t \in Timeouts, f \in {"system", "runtime", "status"},
        r \in NegCodes : ReadFail(d, t, -1, f, r)

SpecRead == InitRead /\ [][NextRead]_vars

(* ----------------------- engine: the output queue ---------------------- *)
\* write(buf, channel, cyclic) fills the channel's output queue.  A buffer
\* longer than the queue overflows it: the oldest samples are dropped and
\* the engine raises RuntimeError "dropped <k> ...".
EngineWrite(buf, cyclic, c) ==
  LET k == Max(0, Len(buf) - c) IN
  [kept |-> SubSeq(buf, k + 1, Len(buf)), cyclic |-> cyclic,
   exc |-> IF k > 0 THEN "runtime" ELSE "none",
   msg |-> IF k > 0 THEN <<"dropped", k>> ELSE <<>>,
   ret |-> 0, k |-> k]

(* ------------------------ binding: Device.write ------------------------ *)
\* libsmu.pyx:321-334.  errcode is declared and not initialised: when
\* self._device.write raises and the except clause lets execution go on,
\* "errcode < 0" reads whatever the variable holds (garbage).
DeviceWriteResult(eng, pyv, garbage) ==
  IF eng.exc = "system" THEN Raised("DeviceError", 0)
  ELSE IF eng.exc = "runtime" /\ pyv = 3 THEN Raised("AttributeError", 0)
  ELSE IF eng.exc = "runtime" /\ ~StartsWithDropped(eng.msg)
    THEN Raised("RuntimeError", 0)
  ELSE LET errcode == IF eng.exc = "none" THEN eng.ret ELSE garbage IN
    IF errcode < 0
      THEN Raised("DeviceError", errcode)
      ELSE [kind |-> "return", code |-> 0, val |-> <<>>, warn |-> 0]

\* libsmu.pyx:322-325  what Device.write hands to the engine
WriteArgs_NotCyclic(data, channel, cyclic) ==
  [buf |-> ToFloatVector(data), channel |-> channel, cyclic |-> FALSE]
WriteArgs(data, channel, cyclic) ==
  [buf |-> ToFloatVector(data), channel |-> channel, cyclic |-> cyclic]

\* libsmu.pyx:311-334.  The model follows the first write to each channel.
Write(d, data, channel, cyclic, garbage) ==
  /\ d \in devices
  /\ out[d][channel].buf = <<>>
  /\ LET a == WriteArgs(data, channel, cyclic)
         eng == EngineWrite(a.buf, a.cyclic, cap)
         res == DeviceWriteResult(eng, py, garbage) IN
     /\ out' = [out EXCEPT ![d][a.channel] =
                  [buf |-> eng.kept, cyclic |-> eng.cyclic, pos |-> 0,
                   data |-> data, asked |-> cyclic, at |-> acq[d],
                   kind |-> res.kind, code |-> res.code, engk |-> eng.k]]
     /\ last' = Outcome("write", res.kind, res.code)
  /\ UNCHANGED <<envVars, available, devices, queue_size, cap, state, cancelled, rate,
                 run, loop, done, acq, inq, dropped, played, mode, rd, sc, hist>>

DeviceWrite(d, data, channel, cyclic, garbage) ==
  Write(d, data, channel, cyclic, garbage)

\* libsmu.pyx:517-519  Channel.write(data, cyclic) of channel chan
ChannelWrite(d, chan, data, cyclic, garbage) ==
  Write(d, data, chan, cyclic, garbage)

\* libsmu.pyx:324-334: the engine's write fails: it raises SystemError,
\* raises a RuntimeError that is no overflow, or returns the transport's
\* negative status.
WriteFail(d, f, r) ==
  /\ d \in devices
  /\ LET eng == [exc |-> IF f = "status" THEN "none" ELSE f,
                 msg |-> <<"usb", 0>>, ret |-> r]
         res == DeviceWriteResult(eng, py, 0) IN
     last' = Outcome("write", res.kind, res.code)
  /\ UNCHANGED <<envVars, available, devices, queue_size, cap, state, cancelled, rate,
                 run, loop, done, acq, inq, dropped, out, played, mode, rd, sc, hist>>

(* ------------------- the output side: specification -------------------- *)
\* the device plays back; nothing is read
LoopPlay(d) == LoopTransfer(d, MaxPlay)

\* stream lengths tried: continuous, and three times each buffer length
PlayCounts == {0} \cup {n \in 1..MaxPlay : \E l \in 1..MaxLen : n = 3 * l}

NextWrite ==
  \/ \E n \in PlayCounts : Start(n, 0)
  \/ \E d \in Devices : LoopPlay(d)
  \/ \E d \in Devices, b \in Buffers, c \in Chans, cy \in BOOLEAN, g \in UninitInts :
        DeviceWrite(d, b, c, cy, g)
  \/ \E d \in Devices, b \in Buffers, c \in Chans, cy \in BOOLEAN, g \in UninitInts :
        ChannelWrite(d, c, b, cy, g)
  \/ \E d \in Devices, f \in {"system", "runtime", "status"}, r \in NegCodes :
        WriteFail(d, f, r)

SpecWrite == InitRead /\ [][NextWrite]_vars

(* -------------------------- binding: Mode ------------------------------ *)
\* libsmu.pyx:27-31  class Mode(Enum)
Modes == {"HI_Z", "SVMI", "SIMV"}

\* mode.value
ModeValue(m) ==
  CASE m = "HI_Z" -> 0 [] m = "SVMI" -> 1 [] m = "SIMV" -> 2

\* Mode(mode)
ModeOf(v) ==
  CASE v = 0 -> "HI_Z" [] v = 1 -> "SVMI" [] v = 2 -> "SIMV"

\* engine: set_mode is refused while the session is RUNNING or the
\* device's loop is still active
EngineSetMode(d, c, v) ==
  IF state = "RUNNING" \/ loop[d] THEN [err |-> -1, mode |-> mode]
               ELSE [err |-> 0, mode |-> [mode EXCEPT ![d][c] = v]]

\* libsmu.pyx:510-511  "if errcode: raise DeviceError"
SetModeResult_PositiveOnly(errcode) ==
  IF errcode > 0 THEN Raised("DeviceError", errcode)
                 ELSE [kind |-> "return", code |-> 0, val |-> <<>>, warn |-> 0]
SetModeResult(errcode) ==
  IF errcode # 0 THEN Raised("DeviceError", errcode)
                 ELSE [kind |-> "return", code |-> 0, val |-> <<>>, warn |-> 0]

\* libsmu.pyx:504-511  Channel.mode.__set__ of channel c of device d
SetMode(d, c, m) ==
  /\ d \in devices
  /\ IF m \notin Modes
       THEN /\ last' = [Rejected("set_mode") EXCEPT
                          !.dev = d, !.via = c, !.val = <<m>>]
            /\ UNCHANGED mode
       ELSE LET e == EngineSetMode(d, c, ModeValue(m))
                r == SetModeResult(e.err) IN
            /\ mode' = e.mode
            /\ last' = [Outcome("set_mode", r.kind, r.code) EXCEPT
                          !.dev = d, !.via = c, !.val = <<m>>]
  /\ UNCHANGED <<envVars, available, devices, queue_size, cap, state, cancelled,
                 rate, run, loop, done, acq, inq, dropped, out, played, rd, sc,
                 hist>>

\* libsmu.pyx:499-502  Channel.mode.__get__
GetModeResult(d, c) == ModeOf(mode[d][c])

GetMode(d, c) ==
  /\ d \in devices
  /\ last' = [Outcome("get_mode", "return", 0) EXCEPT
                !.dev = d, !.via = c, !.val = <<GetModeResult(d, c)>>]
  /\ UNCHANGED <<envVars, available, devices, queue_size, cap, state, cancelled,
                 rate, run, loop, done, acq, inq, dropped, out, played, mode, rd,
                 sc, hist>>

(* ------------------- channel modes: specification ---------------------- *)
NextMode ==
  \/ \E n \in StartCounts : Start(n, 0)
  \/ \E d \in Devices : LoopStep(d)
  \/ \E d \in Devices : LoopAck(d)
  \/ CancelCall
  \/ CancelReturn(0)
  \/ \E d \in Devices, c \in Chans, m \in Modes \cup {"bogus"} : SetMode(d, c, m)
  \/ \E d \in Devices, c \in Chans : GetMode(d, c)

SpecMode == InitRead /\ [][NextMode]_vars

(* ------------------ session control: specification -------------------- *)
\* every attached device has been added
InitCtl ==
  /\ InitCommon
  /\ available = Devices
  /\ devices = Devices

NextCtl ==
  \/ \E r \in {-1, 0, 2} : Configure(r)
  \/ \E n \in StartCounts, e \in {0} \cup NegCodes : Start(n, e)
  \/ \E d \in Devices : LoopStep(d)
  \/ \E d \in Devices : LoopAck(d)
  \/ CancelCall
  \/ \E e \in {0} \cup NegCodes : CancelReturn(e)
  \/ WaitCall
  \/ WaitReturn

SpecCtl == InitCtl /\ [][NextCtl]_vars

\* A loop looks at the cancellation flag at every transfer boundary, and a
\* blocked call returns once what it waits for has happened.
FairCtl ==
  /\ \A d \in Devices : WF_vars(LoopAck(d))
  /\ WF_vars(\E e \in {0} \cup NegCodes : CancelReturn(e))
  /\ WF_vars(WaitReturn)

SpecCtlFair == SpecCtl /\ FairCtl

(* ------------------- channel reads: specification ---------------------- *)
NextChan ==
  \/ \E r \in {-1, 0} : Configure(r)
  \/ \E n \in StartCounts : Start(n, 0)
  \/ \E d \in Devices : LoopStep(d)
  \/ \E d \in Devices, n \in 0..MaxRead, t \in {-1, 0}, v \in {-1, 0, 1} :
        ReadCall(d, n, t, v)
  \/ ReadFill
  \/ ReadReturn

SpecChan == InitRead /\ [][NextChan]_vars

(* ------------------------ engine: membership --------------------------- *)
\* The engine answers -2 when the device is in the target state already;
\* a rejection by the transport carries the transport's code.
\* scan: the available devices become the devices attached to the system
EngineScan(terr) ==
  IF terr # 0 THEN [err |-> terr, available |-> available]
              ELSE [err |-> 0, available |-> attached]

\* add: fails when the device is in the session already or the transport
\* rejects it; membership is unchanged by a failure
EngineAdd(d, terr) ==
  IF d \in devices THEN [err |-> -2, devices |-> devices]
  ELSE IF terr # 0 THEN [err |-> terr, devices |-> devices]
  ELSE [err |-> 0, devices |-> devices \cup {d}]

\* remove: fails when the device is not in the session or the transport
\* rejects it; a detached device is released without asking the transport
EngineRemove(d, detached, terr) ==
  IF d \notin devices THEN [err |-> -2, devices |-> devices]
  ELSE IF ~detached /\ terr # 0 THEN [err |-> terr, devices |-> devices]
  ELSE [err |-> 0, devices |-> devices \ {d}]

\* destroy: drops the device from the available devices
EngineDestroy(d, terr) ==
  IF d \notin available THEN [err |-> -2, available |-> available]
  ELSE IF terr # 0 THEN [err |-> terr, available |-> available]
  ELSE [err |-> 0, available |-> available \ {d}]

(* ------------------- binding: Session membership ----------------------- *)
RECURSIVE SortedTuple(_)
SortedTuple(S) ==
  IF S = {} THEN <<>>
  ELSE LET m == CHOOSE x \in S : \A y \in S : x <= y IN
       <<m>> \o SortedTuple(S \ {m})

\* libsmu.pyx:93-96  Session.devices: a tuple of one Device per member
SessionDevices(ds) == SortedTuple(ds)

InTuple(d, t) == \E k \in 1..Len(t) : t[k] = d

membershipFrame == <<envVars, queue_size, cap, state, cancelled, rate, run, loop,
                     done, acq, inq, dropped, out, played, mode, rd, sc, hist>>

\* libsmu.pyx:115-123
Scan(terr) ==
  LET e == EngineScan(terr) IN
  /\ available' = e.available
  /\ last' = SessionResult("scan", e.err)
  /\ UNCHANGED <<membershipFrame, devices>>

\* libsmu.pyx:125-133
AddAll(terr) ==
  LET e == EngineScan(terr) IN
  /\ available' = e.available
  /\ devices' = IF e.err = 0 THEN devices \cup e.available ELSE devices
  /\ last' = SessionResult("add_all", e.err)
  /\ UNCHANGED membershipFrame

\* libsmu.pyx:135-143.  dev is a Device the client got from
\* available_devices or devices.
Add(d, terr) ==
  /\ d \in available \cup devices
  /\ LET e == EngineAdd(d, terr) IN
     /\ devices' = e.devices
     /\ last' = [SessionResult("add", e.err) EXCEPT
                   !.dev = d,
                   !.follows = IF d \in devices THEN "member" ELSE ""]
  /\ UNCHANGED <<membershipFrame, available>>

\* libsmu.pyx:145-150
Remove(d, detached, terr) ==
  /\ d \in available \cup devices
  /\ LET e == EngineRemove(d, detached, terr) IN
     /\ devices' = e.devices
     /\ last' = [SessionResult("remove", e.err) EXCEPT
                   !.dev = d,
                   !.follows = IF last.op = "add" /\ last.kind = "SessionError"
                                  /\ last.dev = d /\ last.follows = "member"
                                THEN "failed add" ELSE ""]
  /\ UNCHANGED <<membershipFrame, available>>

\* libsmu.pyx:152-157
Destroy(d, terr) ==
  /\ d \in available \cup devices
  /\ LET e == EngineDestroy(d, terr) IN
     /\ available' = e.available
     /\ last' = [SessionResult("destroy", e.err) EXCEPT !.dev = d]
  /\ UNCHANGED <<membershipFrame, devices>>

(* ---------------------- membership: specification ---------------------- *)
\* A new session: nothing scanned, nothing added.
InitMember ==
  /\ InitCommon
  /\ available = {}
  /\ devices = {}

NextMember ==
  \/ \E e \in {0} \cup NegCodes : Scan(e)
  \/ \E e \in {0} \cup NegCodes : AddAll(e)
  \/ \E d \in Devices, e \in {0} \cup NegCodes : Add(d, e)
  \/ \E d \in Devices, b \in BOOLEAN, e \in {0} \cup NegCodes : Remove(d, b, e)
  \/ \E d \in Devices, e \in {0} \cup NegCodes : Destroy(d, e)

SpecMember == InitMember /\ [][NextMember]_vars

(* ======================= claims on the input side ====================== *)
IsRead == last.op = "read"
LastIndices == ResultIndices(last.val, last.via)
Increasing(q) == \A k \in 1..(Len(q) - 1) : q[k] < q[k + 1]

\* C1: a read with timeout -1 (get_samples) that returns while the session
\* is not cancelled returns exactly num_samples samples.
C1_BlockingReadExact ==
  (IsRead /\ last.kind = "return" /\ last.t = -1 /\ ~last.canc)
    => Len(last.val) = last.n

\* a read blocked, was filled by the loop and returned two samples
C1_Witness ==
  /\ IsRead /\ last.kind = "return" /\ last.t = -1 /\ ~last.canc
  /\ ~last.imm /\ last.n = 2 /\ Len(last.val) = 2

\* C2: a read with timeout 0 never blocks, whatever the session state and
\* the queue hold, and returns between 0 and num_samples samples.
C2_NonBlockingRead ==
  /\ rd.on => rd.timeout # 0
  /\ (IsRead /\ last.t = 0) => last.imm
  /\ (IsRead /\ last.t = 0 /\ last.kind = "return") => Len(last.val) <= last.n

\* a read with timeout 0 returned fewer samples than asked, while streaming
C2_Witness ==
  /\ IsRead /\ last.kind = "return" /\ last.t = 0
  /\ Len(last.val) = 1 /\ last.n = 2 /\ state = "RUNNING"

\* C3: the samples a read returns are in acquisition order, within the
\* result and after the sample the previous read returned last.
C3_ReadOrdered ==
  (IsRead /\ last.kind = "return")
    => /\ Increasing(LastIndices)
       /\ Len(last.val) > 0 => LastIndices[1] > last.prev

\* two samples returned after an overflow dropped samples since the
\* previous read
C3_Witness ==
  /\ IsRead /\ last.kind = "return" /\ Len(last.val) = 2
  /\ last.prev > 0 /\ LastIndices[1] > last.prev + 1

\* C4, as claimed: after P > Q samples and no read, read(Q, -1) returns the
\* most recent Q samples and reports P - Q dropped samples to its caller.
FirstReadAfterOverflow(d) ==
  /\ ~hist[d].any
  /\ acq[d] > cap
  /\ ReadCall(d, cap, -1, -1)

MostRecent(d) == [k \in 1..cap |-> acq[d] - cap + k]

C5_OverflowNeverAborts ==
  /\ (IsRead /\ last.engk > 0) => last.kind = "return"
  /\ \A d \in Devices, c \in Chans :
       out[d][c].engk > 0 => out[d][c].kind = "return"

\* channel c of device d was written with cyclic=True before the device
\* acquired anything
CyclicFromStart(d, c) ==
  /\ out[d][c].data # <<>>
  /\ out[d][c].asked
  /\ out[d][c].at = 0

Repeats(p, b) == \A k \in 1..Len(p) : p[k] = b[((k - 1) % Len(b)) + 1]

\* C9, as claimed: after a cyclic write of a buffer of length L the device
\* plays the buffer over and over: sample k is buffer[k mod L].
C9_CyclicPlaysBuffer ==
  \A d \in Devices, c \in Chans :
    CyclicFromStart(d, c) => Repeats(played[d][c], out[d][c].data)

\* C9, amended: a buffer no longer than the queue is played over and over
\* with each value rounded to single precision.
C9_CyclicPlaysFloats ==
  \A d \in Devices, c \in Chans :
    (CyclicFromStart(d, c) /\ Len(out[d][c].data) <= cap)
      => Repeats(played[d][c], ToFloatVector(out[d][c].data))

\* a stream of 3L = 6 samples completed after a cyclic write of L = 2 values
C9_Witness ==
  \E d \in Devices, c \in Chans :
    /\ CyclicFromStart(d, c) /\ Len(out[d][c].data) = 2
    /\ run.n = 6 /\ state = "IDLE" /\ Len(played[d][c]) = 6
    /\ played[d][c][5] # played[d][c][6]

(* ========================= claims on the modes ========================= *)
\* a call of op completes in this step
Completes(op) == last' # last /\ last'.op = op

\* C6: set_mode of a valid Mode on a channel is rejected with DeviceError
\* while the session is RUNNING and leaves every channel's mode as it was;
\* while the session is IDLE it returns and the channel's mode is the one
\* passed; a get_mode of the channel that comes next returns that Mode.
C6_SetModeOnlyWhenIdle ==
  [][ /\ (Completes("set_mode") /\ last'.val[1] \in Modes /\ state = "RUNNING")
           => (last'.kind = "DeviceError" /\ mode' = mode)
      /\ (Completes("set_mode") /\ last'.val[1] \in Modes /\ state = "IDLE")
           => /\ last'.kind = "return"
              /\ ModeOf(mode'[last'.dev][last'.via]) = last'.val[1]
      /\ (Completes("get_mode") /\ last.op = "set_mode" /\ last.kind = "return"
            /\ last.dev = last'.dev /\ last.via = last'.via)
           => last'.val = last.val
    ]_vars

\* C6: channel A of device 1 was set to SIMV while IDLE, and a set_mode to
\* SVMI during the stream was rejected.
C6_Witness ==
  /\ last.op = "set_mode" /\ last.kind = "DeviceError"
  /\ last.dev = 1 /\ last.via = 0 /\ last.val = <<"SVMI">>
  /\ state = "RUNNING"
  /\ ModeOf(mode[1][0]) = "SIMV"

(* ===================== claims on session control ====================== *)
\* the step is a call of Session.cancel
CancelCalled == sc = "none" /\ (sc' = "cancel" \/ Completes("cancel"))

\* C7: cancel() while IDLE returns normally and leaves the session IDLE
\* with nothing else changed; cancel() while RUNNING moves the session to
\* CANCELLED with the cancellation flag raised; it returns only when no
\* device loop is active, and it does return; a wait_for_completion()
\* issued after the cancellation returns.
C7_CancelStopsStream ==
  /\ [][ /\ (CancelCalled /\ state = "IDLE")
              => /\ last'.kind = "return"
                 /\ state' = "IDLE"
                 /\ UNCHANGED <<cancelled, loop, run, sc>>
         /\ (CancelCalled /\ state = "RUNNING")
              => (state' = "CANCELLED" /\ cancelled')
         /\ (sc = "cancel" /\ sc' = "none") => (NoLoops /\ state' = "IDLE")
       ]_vars
  /\ (sc = "cancel") ~> (sc = "none" /\ NoLoops)
  /\ (sc = "wait" /\ cancelled) ~> (sc = "none" /\ last.op = "wait")

\* C7: two devices streamed, the stream was cancelled, and a
\* wait_for_completion() issued after the cancel has returned.
C7_Witness ==
  /\ last.op = "wait" /\ last.kind = "return"
  /\ cancelled /\ state = "IDLE" /\ NoLoops
  /\ \A d \in Devices : done[d] > 0

(* ====================== claims on channel reads ======================= *)
\* The claim's scenario for device d: the first stream, started with
\* n > 0 not above the queue capacity after configure(0), has completed
\* without cancellation.
ConfiguredRunCompleted(d) ==
  /\ d \in devices
  /\ run.no = 1 /\ run.cfg /\ run.rate = 0
  /\ run.n > 0 /\ run.n <= cap
  /\ state # "RUNNING" /\ ~cancelled

\* everything device d acquired has been read
Drained(d) == inq[d] = <<>> /\ ~rd.on

\* C8 as stated: in the scenario, the samples read from channel A and the
\* samples read from channel B number n each once the queue is drained
\* (a Device.read sample counts for both channels).
C8_EachChannelReadsN ==
  \A d \in Devices : (ConfiguredRunCompleted(d) /\ Drained(d)) =>
     /\ hist[d].dev + hist[d].ch[1] = run.n
     /\ hist[d].dev + hist[d].ch[2] = run.n

\* C8 amended: in the scenario the device has acquired exactly n samples,
\* none dropped; Device.read, Channel A's read and Channel B's read take
\* from one queue, and what they delivered together with what is still
\* queued numbers n: a sample read through one channel is gone for the
\* other.
C8_StreamDeliversN ==
  \A d \in Devices : ConfiguredRunCompleted(d) =>
     /\ done[d] = run.n /\ acq[d] = run.n /\ dropped[d] = 0
     /\ hist[d].dev + hist[d].ch[1] + hist[d].ch[2] + Len(inq[d])
          + (IF rd.on /\ rd.dev = d THEN Len(rd.buf) ELSE 0) = run.n

\* C8: a completed stream of 2 samples was drained by one read of
\* channel A and one read of channel B.
C8_Witness ==
  /\ ConfiguredRunCompleted(1) /\ Drained(1)
  /\ run.n = 2
  /\ hist[1].ch = <<1, 1>>

(* ======================= claims on membership ========================= *)
\* C10: add(device) of a device that is in the session raises SessionError
\* and leaves the membership as it was; a remove(device) of the same device
\* that comes next and that the transport does not reject returns normally,
\* and the device is not in Session.devices afterwards.
C10_AddMemberFailsRemoveSucceeds ==
  [][ /\ (Completes("add") /\ last'.dev \in devices)
           => (last'.kind = "SessionError" /\ devices' = devices)
      /\ (Completes("remove") /\ last'.follows = "failed add")
           => \/ /\ last'.kind = "return"
                 /\ ~InTuple(last'.dev, SessionDevices(devices'))
              \/ /\ last'.kind = "SessionError" /\ last'.code \in NegCodes
                 /\ devices' = devices
    ]_vars

\* C10: device 1 was a member, an add of it failed, and the remove that
\* followed took it out of the session.
C10_Witness ==
  /\ last.op = "remove" /\ last.kind = "return" /\ last.dev = 1
  /\ last.follows = "failed add"
  /\ ~InTuple(1, SessionDevices(devices))

(* ========================= hotplug callbacks =========================== *)
\* engine: each event type has one slot; a registration replaces what the
\* slot holds
EngineHotplugRegister(ev, p) == [slot EXCEPT ![ev] = p]

\* libsmu.pyx:71, 80  <void*>func: the address of the function object, no
\* reference taken.  A function object is identified with its address.
FuncPointer(func) == func

\* libsmu.pyx:86  (<object>func): the object at the address.  When nothing
\* references the function any more the object is freed and the address
\* dangles: the call may crash the interpreter (-1) or run whatever object
\* lives there now.
CallTargets(p) == IF p \in alive THEN {p} ELSE Funcs \cup {-1}

\* libsmu.pyx:64-71
HotplugAttach(func) ==
  /\ func \in alive
  /\ slot' = EngineHotplugRegister("attach", FuncPointer(func))
  /\ last' = [Outcome("hotplug_attach", "return", 0) EXCEPT !.val = <<func>>]
  /\ UNCHANGED <<py, attached, alive, hot, events, cbs, samba, available, devices,
                 queue_size, cap, state, cancelled, rate, run, loop, done, acq,
                 inq, dropped, out, played, mode, rd, sc, hist>>

\* libsmu.pyx:73-80
HotplugDetach(func) ==
  /\ func \in alive
  /\ slot' = EngineHotplugRegister("detach", FuncPointer(func))
  /\ last' = [Outcome("hotplug_detach", "return", 0) EXCEPT !.val = <<func>>]
  /\ UNCHANGED <<py, attached, alive, hot, events, cbs, samba, available, devices,
                 queue_size, cap, state, cancelled, rate, run, loop, done, acq,
                 inq, dropped, out, played, mode, rd, sc, hist>>

\* The client drops its last reference to a function (a lambda or a bound
\* method passed to a registration and kept nowhere else is in this state
\* as soon as the registration returns).
Release(func) ==
  /\ func \in alive
  /\ alive' = alive \ {func}
  /\ UNCHANGED <<py, attached, slot, hot, events, cbs, samba, available, devices,
                 queue_size, cap, state, cancelled, rate, run, loop, done, acq,
                 inq, dropped, out, played, mode, rd, sc, hist, last>>

\* transport: device d is unplugged / plugged in
PhysicalEvent(ev, d) ==
  /\ hot.ev = "none"
  /\ events < MaxEvents
  /\ IF ev = "detach" THEN d \in attached ELSE d \notin attached
  /\ attached' = IF ev = "detach" THEN attached \ {d} ELSE attached \cup {d}
  /\ events' = events + 1
  /\ hot' = [ev |-> ev, dev |-> d, no |-> events + 1, member |-> d \in devices,
             resolved |-> FALSE]
  /\ UNCHANGED <<py, slot, alive, cbs, samba, available, devices, queue_size, cap,
                 state, cancelled, rate, run, loop, done, acq, inq, dropped, out,
                 played, mode, rd, sc, hist, last>>

\* engine: a detach is resolved as remove(device, detached=true) and the
\* device is no longer available; an attached device becomes available
EngineResolve ==
  /\ hot.ev \in {"attach", "detach"}
  /\ ~hot.resolved
  /\ hot' = [hot EXCEPT !.resolved = TRUE]
  /\ devices' = IF hot.ev = "detach" THEN devices \ {hot.dev} ELSE devices
  /\ available' = IF hot.ev = "detach" THEN available \ {hot.dev}
                                       ELSE available \cup {hot.dev}
  /\ loop' = IF hot.ev = "detach" THEN [loop EXCEPT ![hot.dev] = FALSE] ELSE loop
  /\ UNCHANGED <<py, attached, slot, alive, events, cbs, samba, queue_size, cap,
                 state, cancelled, rate, run, done, acq, inq, dropped, out, played,
                 mode, rd, sc, hist, last>>

\* libsmu.pyx:270-275  Device._create: the wrapper of engine device d
DeviceCreate(d) == [device |-> d]

\* libsmu.pyx:82-86  _hotplug_callback(device, func): the Python calls it
\* makes; target is the object found at func
HotplugCallbackCalls_Twice(device, target) ==
  <<[func |-> target, arg |-> DeviceCreate(device)],
    [func |-> target, arg |-> DeviceCreate(device)]>>
HotplugCallbackCalls_None(device, target) == <<>>
HotplugCallbackCalls(device, target) ==
  <<[func |-> target, arg |-> DeviceCreate(device)]>>

\* engine: once the event is resolved the engine runs the proxy registered
\* in the event's slot, once, with the slot's pointer.  no, ev, was, active:
\* the event's number and type, whether the device was in the session when
\* the event came and whether it is when the call is made.
HotplugCallback(target) ==
  /\ hot.ev \in {"attach", "detach"}
  /\ hot.resolved
  /\ slot[hot.ev] # 0
  /\ target \in CallTargets(slot[hot.ev])
  /\ LET calls == HotplugCallbackCalls(hot.dev, target) IN
     cbs' = cbs \o [k \in 1..Len(calls) |->
                     [func |-> calls[k].func, dev |-> calls[k].arg.device,
                      no |-> hot.no, ev |-> hot.ev, was |-> hot.member,
                      active |-> hot.dev \in devices]]
  /\ hot' = IF target = -1 THEN [NoHot EXCEPT !.ev = "crashed"] ELSE NoHot
  /\ UNCHANGED <<py, attached, slot, alive, events, samba, available, devices,
                 queue_size, cap, state, cancelled, rate, run, loop, done, acq,
                 inq, dropped, out, played, mode, rd, sc, hist, last>>

\* engine: nothing is registered for the event
HotplugSkip ==
  /\ hot.ev \in {"attach", "detach"}
  /\ hot.resolved
  /\ slot[hot.ev] = 0
  /\ hot' = NoHot
  /\ UNCHANGED <<py, attached, slot, alive, events, cbs, samba, available, devices,
                 queue_size, cap, state, cancelled, rate, run, loop, done, acq,
                 inq, dropped, out, played, mode, rd, sc, hist, last>>

(* ------------------------ hotplug: specification ----------------------- *)
\* The transport rejects adding a device that is not plugged in.
TransportAnswers(d) == IF d \in attached THEN {0} \cup NegCodes ELSE NegCodes

\* The interpreter runs as long as no dangling call has crashed it.
Running == hot.ev # "crashed"

NextHotplug ==
  \/ \E f \in Funcs : Running /\ HotplugAttach(f)
  \/ \E f \in Funcs : Running /\ HotplugDetach(f)
  \/ \E f \in Funcs : Running /\ Release(f)
  \/ \E ev \in {"attach", "detach"}, d \in Devices : Running /\ PhysicalEvent(ev, d)
  \/ Running /\ EngineResolve
  \/ \E t \in Funcs \cup {-1} : Running /\ HotplugCallback(t)
  \/ Running /\ HotplugSkip
  \/ Running /\ Scan(0)
  \/ \E d \in Devices : \E e \in TransportAnswers(d) : Running /\ Add(d, e)
  \/ \E d \in Devices, b \in BOOLEAN : Running /\ Remove(d, b, 0)

SpecHotplug == InitCtl /\ [][NextHotplug]_vars

(* ========================= claims on hotplug =========================== *)
\* the step ends the handling of an event of type ev
EventHandled(ev) == hot.ev = ev /\ hot.resolved /\ hot'.ev # ev

LastCall(q) == q[Len(q)]

C17_LastRegisteredCalledOnce ==
  [][ /\ \A ev \in {"attach", "detach"} :
           (EventHandled(ev) /\ slot[ev] # 0)
             => /\ Len(cbs') = Len(cbs) + 1
                /\ LastCall(cbs').func = slot[ev]
                /\ LastCall(cbs').dev = hot.dev
      /\ (last' # last /\ last'.op = "hotplug_attach")
           => (slot'.attach = last'.val[1] /\ slot'.detach = slot.detach)
      /\ (last' # last /\ last'.op = "hotplug_detach")
           => (slot'.detach = last'.val[1] /\ slot'.attach = slot.attach)
    ]_vars

(* ------------------------ binding: Session.run ------------------------- *)
\* libsmu.pyx:177-190, the call.  The engine's run starts the stream as
\* start does and blocks until it is over.  terr is the transport's answer.
RunCall(samples, terr) ==
  /\ sc = "none"
  /\ ~Streaming
  /\ run.no < MaxRuns
  /\ IF samples < 0
       THEN /\ last' = Rejected("run")
            /\ UNCHANGED <<state, cancelled, run, loop, done, sc>>
       ELSE IF terr # 0
       THEN /\ state' = "IDLE"
            /\ last' = SessionResult("run", terr)
            /\ UNCHANGED <<cancelled, run, loop, done, sc>>
       ELSE /\ state' = IF devices = {} THEN "IDLE" ELSE "RUNNING"
            /\ cancelled' = FALSE
            /\ run' = [n |-> samples, rate |-> rate, cfg |-> (state = "CONFIGURED"),
                       no |-> run.no + 1]
            /\ loop' = [d \in Devices |-> d \in devices]
            /\ done' = [d \in Devices |-> 0]
            /\ sc' = "run"
            /\ UNCHANGED last
  /\ UNCHANGED <<envVars, available, devices, queue_size, cap, rate, acq, inq, dropped,
                 out, played, mode, rd, hist>>

\* libsmu.pyx:188-190, the return: the stream is over; errcode is the
\* engine's status.
RunReturn(errcode) ==
  /\ sc = "run"
  /\ ~Streaming
  /\ NoLoops
  /\ sc' = "none"
  /\ state' = "IDLE"
  /\ last' = SessionResult("run", errcode)
  /\ UNCHANGED <<envVars, available, devices, queue_size, cap, cancelled, rate, run,
                 loop, done, acq, inq, dropped, out, played, mode, rd, hist>>

(* ---------------------- failures: specification ------------------------ *)
\* A new session whose client scans, changes the membership and streams,
\* with a transport that may reject every request.
NextFail ==
  \/ \E e \in {0, -4} : Scan(e)
  \/ \E d \in Devices, e \in {0, -4} : Add(d, e)
  \/ \E d \in Devices, b \in BOOLEAN, e \in {0, -4} : Remove(d, b, e)
  \/ \E d \in Devices, e \in {0, -4} : Destroy(d, e)
  \/ \E n \in {-1, 0, 1}, e \in {0, -4} : Start(n, e)
  \/ \E n \in {-1, 1}, e \in {0, -4} : RunCall(n, e)
  \/ \E e \in {0, -4} : RunReturn(e)
  \/ \E d \in Devices : LoopStep(d)
  \/ \E d \in Devices : LoopAck(d)
  \/ CancelCall
  \/ \E e \in {0, -4} : CancelReturn(e)

SpecFail == InitMember /\ [][NextFail]_vars

Abs(r) == IF r < 0 THEN -r ELSE r

\* libsmu.pyx:457  bm_request_type & 0x80 == 0x80: a device-to-host transfer
IsIn(bm_request_type) == (bm_request_type \div 128) % 2 = 1

\* libsmu.pyx:455-461  the data and length handed to the engine.  data is
\* the bytes of str(data): <<48>> is '0'.
CtrlArgs(bm_request_type, data, wLength) ==
  IF IsIn(bm_request_type)
    THEN [data |-> IF data = <<48>> THEN [k \in 1..wLength |-> 0] ELSE data,
          wLength |-> wLength]
    ELSE [data |-> data, wLength |-> 0]

\* libsmu.pyx:463-471  r is the engine's (the transport's) answer
CtrlTransferResult_Signed(bm_request_type, data, r) ==
  IF r < 0 THEN Raised("IOError", r)
  ELSE [kind |-> "return", code |-> 0, warn |-> 0,
        val |-> IF IsIn(bm_request_type) THEN data ELSE <<r>>]
CtrlTransferResult(bm_request_type, data, r) ==
  IF r < 0 THEN Raised("IOError", Abs(r))
  ELSE [kind |-> "return", code |-> 0, warn |-> 0,
        val |-> IF IsIn(bm_request_type) THEN data ELSE <<r>>]

\* transport: a transfer of wLength bytes answers a negative status or the
\* number of bytes transferred
TransferAnswers(wLength) == NegCodes \cup {wLength}

\* libsmu.pyx:435-471  Device.ctrl_transfer
CtrlTransfer(d, bm_request_type, data, wLength, r) ==
  /\ d \in devices
  /\ LET a == CtrlArgs(bm_request_type, data, wLength)
         res == CtrlTransferResult(bm_request_type, a.data, r) IN
     /\ r \in TransferAnswers(a.wLength)
     /\ last' = [Outcome("ctrl_transfer", res.kind, res.code) EXCEPT
                   !.dev = d, !.val = res.val, !.n = bm_request_type]
  /\ UNCHANGED <<envVars, available, devices, queue_size, cap, state, cancelled, rate,
                 run, loop, done, acq, inq, dropped, out, played, mode, rd, sc, hist>>

\* libsmu.pyx:394-396  the DeviceError raised has no error code (code 0)
WriteCalibrationResult(r) ==
  IF r < 0 THEN Raised("DeviceError", 0)
           ELSE [kind |-> "return", code |-> 0, val |-> <<>>, warn |-> 0]

\* libsmu.pyx:378-396  Device.write_calibration; reset: file is None
WriteCalibration(d, reset, r) ==
  /\ d \in devices
  /\ LET res == WriteCalibrationResult(r) IN
     last' = [Outcome("write_calibration", res.kind, res.code) EXCEPT
                !.dev = d, !.val = <<reset>>]
  /\ UNCHANGED <<envVars, available, devices, queue_size, cap, state, cancelled, rate,
                 run, loop, done, acq, inq, dropped, out, played, mode, rd, sc, hist>>

(* ---------------------- transport: specification ----------------------- *)
\* request types: 0x40 host-to-device, 0xC0 device-to-host
RequestTypes == {64, 192}
CtrlData == {<<48>>, <<7>>}

NextTransport ==
  \/ \E n \in {0, 1} : Start(n, 0)
  \/ \E d \in Devices : LoopStep(d)
  \/ \E d \in Devices, n \in 0..1, t \in {-1, 0} : ReadCall(d, n, t, -1)
  \/ ReadFill
  \/ ReadReturn
  \/ \E d \in Devices, t \in {-1, 0}, f \in {"system", "runtime", "status"},
        r \in NegCodes : ReadFail(d, t, -1, f, r)
  \/ \E d \in Devices, f \in {"system", "runtime", "status"}, r \in NegCodes :
        WriteFail(d, f, r)
  \/ \E d \in Devices, bm \in RequestTypes, dt \in CtrlData, wl \in 0..1,
        r \in NegCodes \cup {0, 1} : CtrlTransfer(d, bm, dt, wl, r)
  \/ \E d \in Devices, b \in BOOLEAN, r \in NegCodes \cup {0} :
        WriteCalibration(d, b, r)

SpecTransport == InitRead /\ [][NextTransport]_vars

(* ====================== claims on the transport ======================== *)
\* C13, as claimed: for every negative status r the transport answers to
\* ctrl_transfer, read, write or write_calibration, the error raised
\* carries exactly r.
C13_StatusPreserved ==
  [][\A d \in Devices, r \in NegCodes :
       /\ (\E t \in Timeouts : ReadFail(d, t, -1, "status", r))
            => (last'.kind = "DeviceError" /\ last'.code = r)
       /\ WriteFail(d, "status", r)
            => (last'.kind = "DeviceError" /\ last'.code = r)
       /\ (\E bm \in RequestTypes, dt \in CtrlData, wl \in 0..1 :
             CtrlTransfer(d, bm, dt, wl, r))
            => (last'.kind = "IOError" /\ last'.code = r)
       /\ (\E b \in BOOLEAN : WriteCalibration(d, b, r))
            => (last'.kind = "DeviceError" /\ last'.code = r)
     ]_vars

\* C13, amended: for every negative status r of the transport, read and
\* write raise DeviceError carrying r; ctrl_transfer raises IOError
\* carrying -r, the magnitude without the sign; write_calibration raises
\* DeviceError carrying no code.
C13_StatusReported ==
  [][\A d \in Devices, r \in NegCodes :
       /\ (\E t \in Timeouts : ReadFail(d, t, -1, "status", r))
            => (last'.kind = "DeviceError" /\ last'.code = r)
       /\ WriteFail(d, "status", r)
            => (last'.kind = "DeviceError" /\ last'.code = r)
       /\ (\E bm \in RequestTypes, dt \in CtrlData, wl \in 0..1 :
             CtrlTransfer(d, bm, dt, wl, r))
            => (last'.kind = "IOError" /\ last'.code = -r)
       /\ (\E b \in BOOLEAN : WriteCalibration(d, b, r))
            => (last'.kind = "DeviceError" /\ last'.code = 0)
     ]_vars

\* C13: a device-to-host control transfer failed with status -4 while the
\* device streamed.
C13_Witness ==
  /\ last.op = "ctrl_transfer" /\ last.kind = "IOError" /\ last.code = 4
  /\ last.n = 192 /\ state = "RUNNING"

(* ------------------------ binding: Device.set_led ---------------------- *)
\* libsmu.pyx:34-39  class LED(Enum), in definition order
LEDs == <<"red", "green", "blue", "all">>

LedValue(led) ==
  CASE led = "red" -> 47 [] led = "green" -> 29 [] led = "blue" -> 28
    [] led = "all" -> 0

IsLed(led) == \E k \in 1..Len(LEDs) : LEDs[k] = led

\* libsmu.pyx:421-433  the control transfers set_led makes, in order:
\* request 0x50 (on) or 0x51 (off), the LED's value as wValue
LedTransfers(led, status) ==
  LET req == IF status THEN 80 ELSE 81 IN
  IF led = "all"
    THEN [k \in 1..3 |-> [b_request |-> req, wValue |-> LedValue(LEDs[k])]]
    ELSE <<[b_request |-> req, wValue |-> LedValue(led)]>>

\* libsmu.pyx:408-433.  fail: the transfer the transport fails with status
\* r (0: none); the IOError of ctrl_transfer ends the call.
SetLed(d, led, status, fail, r) ==
  /\ d \in devices
  /\ IF ~IsLed(led)
       THEN last' = [Rejected("set_led") EXCEPT !.dev = d, !.val = <<led>>]
       ELSE LET ts == LedTransfers(led, status)
                a == CtrlArgs(64, <<48>>, 0)
                res == CtrlTransferResult(64, a.data, IF fail = 0 THEN 0 ELSE r) IN
            /\ fail <= Len(ts)
            /\ last' = [Outcome("set_led", res.kind, res.code) EXCEPT
                          !.dev = d, !.val = <<led>>,
                          !.eng = IF fail = 0 THEN Len(ts) ELSE fail]
  /\ UNCHANGED <<envVars, available, devices, queue_size, cap, state, cancelled, rate,
                 run, loop, done, acq, inq, dropped, out, played, mode, rd, sc, hist>>

(* ------------- binding: Device.write, any channel index ---------------- *)
\* libsmu.pyx:311-334 with a channel index that is neither 0 nor 1: the
\* method has no check of channel and hands it to the engine, which
\* answers the negative status r.
WriteBadChannel(d, data, channel, cyclic, r) ==
  /\ d \in devices
  /\ channel \notin Chans
  /\ LET a == WriteArgs(data, channel, cyclic)
         eng == [exc |-> "none", msg |-> <<>>, ret |-> r]
         res == DeviceWriteResult(eng, py, 0) IN
     last' = [Outcome("write", res.kind, res.code) EXCEPT
                !.dev = d, !.via = a.channel]
  /\ UNCHANGED <<envVars, available, devices, queue_size, cap, state, cancelled, rate,
                 run, loop, done, acq, inq, dropped, out, played, mode, rd, sc, hist>>

(* ---------------------- validation: specification ---------------------- *)
BadChans == {-1, 2}

NextValid ==
  \/ \E r \in {-1, 0, 2} : Configure(r)
  \/ \E n \in {-1, 1} : Start(n, 0)
  \/ \E n \in {-1, 1} : RunCall(n, 0)
  \/ RunReturn(0)
  \/ \E d \in Devices : LoopStep(d)
  \/ \E d \in Devices, c \in Chans, m \in {"SVMI", "bogus"} : SetMode(d, c, m)
  \/ \E d \in Devices, l \in {"red", "all", "bogus"}, st \in BOOLEAN, f \in 0..3,
        r \in NegCodes : SetLed(d, l, st, f, r)
  \/ \E d \in Devices, c \in Chans : DeviceWrite(d, Ramp(1), c, FALSE, 0)
  \/ \E d \in Devices, c \in BadChans, cy \in BOOLEAN, r \in NegCodes :
        WriteBadChannel(d, Ramp(1), c, cy, r)

SpecValid == InitRead /\ [][NextValid]_vars

(* ======================= claims on validation ========================== *)
\* a call with an invalid argument
InvalidCall ==
  \/ Configure(-1)
  \/ Start(-1, 0)
  \/ RunCall(-1, 0)
  \/ \E d \in Devices, c \in Chans : SetMode(d, c, "bogus")
  \/ \E d \in Devices, st \in BOOLEAN, f \in 0..3, r \in NegCodes :
       SetLed(d, "bogus", st, f, r)
  \/ \E d \in Devices, c \in BadChans, cy \in BOOLEAN, r \in NegCodes :
       WriteBadChannel(d, Ramp(1), c, cy, r)

\* C14, as claimed: a call with an invalid argument (negative sample rate,
\* negative sample count, a value outside Mode or LED, a channel index
\* other than 0 and 1) raises an error, issues no engine call and changes
\* nothing of the session and its devices.
C14_ValidatedBeforeEngine ==
  [][InvalidCall =>
       /\ last'.kind \notin {"none", "return"}
       /\ last'.eng = 0
       /\ UNCHANGED <<available, devices, queue_size, cap, state, cancelled, rate,
                      run, loop, done, acq, inq, dropped, out, played, mode, rd, sc>>
    ]_vars

(* ----------------- binding: Session.end and teardown ------------------- *)
\* libsmu.pyx:225-226  errcode is the engine's status of end()
EndResult(errcode) == SessionResult("end", errcode)

\* libsmu.pyx:249-256  __dealloc__ calls the engine's end() and drops its
\* status; nothing is raised
DeallocResult_Raises(errcode) == SessionResult("dealloc", errcode)
DeallocResult(errcode) == Outcome("dealloc", "return", 0)

\* the outcome of end() for caller by: "end" the client, "dealloc" teardown
EndOutcome(by, errcode, after) ==
  [(IF by = "end" THEN EndResult(errcode) ELSE DeallocResult(errcode))
     EXCEPT !.follows = after]

\* The engine's end(): a running stream is cancelled and the call blocks
\* until every loop has stopped; otherwise it completes at once.  The
\* session is IDLE afterwards; a deallocated session takes no more calls.
EndBegin(by, errcode) ==
  /\ sc = "none"
  /\ IF state = "RUNNING"
       THEN /\ state' = "CANCELLED"
            /\ cancelled' = TRUE
            /\ sc' = by
            /\ UNCHANGED last
       ELSE /\ state' = "IDLE"
            /\ sc' = IF by = "dealloc" THEN "freed" ELSE "none"
            /\ last' = EndOutcome(by, errcode, "")
            /\ UNCHANGED cancelled
  /\ UNCHANGED <<envVars, available, devices, queue_size, cap, rate, run, loop, done,
                 acq, inq, dropped, out, played, mode, rd, hist>>

EndFinish(by, errcode) ==
  /\ sc = by
  /\ NoLoops
  /\ state' = "IDLE"
  /\ sc' = IF by = "dealloc" THEN "freed" ELSE "none"
  /\ last' = EndOutcome(by, errcode, "stream")
  /\ UNCHANGED <<envVars, available, devices, queue_size, cap, cancelled, rate, run,
                 loop, done, acq, inq, dropped, out, played, mode, rd, hist>>

\* libsmu.pyx:221-226  Session.end: the call, and its return after a stream
EndCall(errcode) == EndBegin("end", errcode)
EndReturn(errcode) == EndFinish("end", errcode)

\* libsmu.pyx:249-256  Session.__dealloc__
DeallocCall(errcode) == EndBegin("dealloc", errcode)
DeallocReturn(errcode) == EndFinish("dealloc", errcode)

(* ------------------------- end: specification -------------------------- *)
NextEnd ==
  \/ Configure(0)
  \/ \E n \in {0, 1} : Start(n, 0)
  \/ \E d \in Devices : LoopStep(d)
  \/ \E d \in Devices : LoopAck(d)
  \/ CancelCall
  \/ \E e \in {0} \cup NegCodes : CancelReturn(e)
  \/ \E e \in {0} \cup NegCodes : EndCall(e)
  \/ \E e \in {0} \cup NegCodes : EndReturn(e)
  \/ \E e \in {0} \cup NegCodes : DeallocCall(e)
  \/ \E e \in {0} \cup NegCodes : DeallocReturn(e)

SpecEnd == InitCtl /\ [][NextEnd]_vars

\* A loop sees the cancellation flag at its next transfer boundary, and
\* the engine's end() returns once the loops have stopped.
FairEnd ==
  /\ \A d \in Devices : WF_vars(LoopAck(d))
  /\ WF_vars(\E e \in {0} \cup NegCodes : CancelReturn(e))
  /\ WF_vars(\E e \in {0} \cup NegCodes : EndReturn(e))
  /\ WF_vars(\E e \in {0} \cup NegCodes : DeallocReturn(e))

SpecEndFair == SpecEnd /\ FairEnd

(* ========================== claims on end ============================== *)
\* C15: end() may be called in every state in which the session takes a
\* call and it returns; run at teardown it raises nothing whatever status
\* the engine reports; called by the client it raises SessionError with the
\* status whenever that is not 0, and so does cancel(); once end() has
\* returned the session is IDLE and no device loop is active.
C15_EndErrorPolicy ==
  /\ [][\A e \in {0} \cup NegCodes :
          /\ (DeallocCall(e) \/ DeallocReturn(e))
               => (last' = last \/ (last'.op = "dealloc" /\ last'.kind = "return"))
          /\ ((EndCall(e) \/ EndReturn(e) \/ CancelReturn(e)) /\ e # 0 /\ sc' = "none")
               => (last'.kind = "SessionError" /\ last'.code = e)
          /\ ((EndCall(e) \/ EndReturn(e) \/ DeallocCall(e) \/ DeallocReturn(e))
                /\ sc' \in {"none", "freed"})
               => (state' = "IDLE" /\ NoLoops')
       ]_vars
  /\ [](sc = "none" => (ENABLED EndCall(0) /\ ENABLED DeallocCall(0)))
  /\ (sc \in {"end", "dealloc"}) ~> (sc \in {"none", "freed"})

\* C15: the session was deallocated while two devices streamed, the
\* engine's end() reported a failure and nothing was raised.
C15_Witness ==
  /\ last.op = "dealloc" /\ last.kind = "return" /\ last.follows = "stream"
  /\ sc = "freed" /\ state = "IDLE" /\ NoLoops
  /\ \A d \in Devices : done[d] > 0

(* ======================= claims on configure =========================== *)
\* engine: the rate device d samples at under configured rate r: its own
\* default when r is 0
EffectiveRate(d, r) == IF r = 0 THEN <<"default", d>> ELSE <<"rate", r>>

\* C16: configure(sample_rate) with sample_rate >= 0 raises SessionError
\* while the session is RUNNING and leaves the configured rate and the
\* run in progress as they were; while the session does not stream it
\* returns and the rate is the one passed, each device's default for 0; the
\* rate of a run in progress is the rate configured before it started.
C16_ConfigureOnlyWhenNotStreaming ==
  /\ [][\A r \in {0, 2} :
          /\ (Configure(r) /\ state = "RUNNING")
               => /\ last'.kind = "SessionError"
                  /\ UNCHANGED <<rate, run, cap, state>>
          /\ (Configure(r) /\ ~Streaming)
               => /\ last'.kind = "return"
                  /\ rate' = r
                  /\ \A d \in devices :
                       EffectiveRate(d, rate') =
                         IF r = 0 THEN <<"default", d>> ELSE <<"rate", r>>
       ]_vars
  /\ [](state = "RUNNING" => run.rate = rate)

\* C16: a stream configured at rate 2 runs and a configure was refused.
C16_Witness ==
  /\ last.op = "configure" /\ last.kind = "SessionError"
  /\ state = "RUNNING" /\ run.cfg /\ run.rate = 2 /\ rate = 2
  /\ \E d \in Devices : done[d] > 0

(* ---------------------- binding: Device.samba_mode --------------------- *)
\* engine: samba_mode reboots the device into its bootloader unless the
\* transport rejects the request (terr); a handle whose device is in the
\* bootloader fails every request with a negative status
EngineSambaMode(d, terr) ==
  IF d \in samba THEN [err |-> -1, samba |-> samba]
  ELSE IF terr # 0 THEN [err |-> terr, samba |-> samba]
  ELSE [err |-> 0, samba |-> samba \cup {d}]

\* what the engine answers a request on the handle of device d
HandleAnswers(d) == IF d \in samba THEN NegCodes ELSE {0}

\* libsmu.pyx:405-406
SambaResult(errcode) ==
  IF errcode # 0 THEN Raised("DeviceError", errcode)
                 ELSE [kind |-> "return", code |-> 0, val |-> <<>>, warn |-> 0]

\* libsmu.pyx:401-406
SambaMode(d, terr) ==
  /\ d \in devices
  /\ LET e == EngineSambaMode(d, terr)
         res == SambaResult(e.err) IN
     /\ samba' = e.samba
     /\ last' = [Outcome("samba_mode", res.kind, res.code) EXCEPT !.dev = d]
  /\ UNCHANGED <<py, attached, hotVars, available, devices, queue_size, cap, state,
                 cancelled, rate, run, loop, done, acq, inq, dropped, out, played,
                 mode, rd, sc, hist>>

\* libsmu.pyx:292-297  Device.calibration: the engine fills cal and answers
\* r; the getter does not look at the answer and returns cal (left empty
\* by a failing engine call)
CalibrationResult(r, cal) ==
  [kind |-> "return", code |-> 0, warn |-> 0, val |-> IF r < 0 THEN <<>> ELSE cal]

\* the calibration matrix of a device: gain and offset per channel
CalMatrix == <<(<<1, 0>>), (<<1, 0>>)>>

Calibration(d, r) ==
  /\ d \in devices
  /\ LET res == CalibrationResult(r, CalMatrix) IN
     last' = [Outcome("calibration", res.kind, res.code) EXCEPT
                !.dev = d, !.val = res.val]
  /\ UNCHANGED <<envVars, available, devices, queue_size, cap, state, cancelled, rate,
                 run, loop, done, acq, inq, dropped, out, played, mode, rd, sc, hist>>

\* libsmu.pyx:504-511  Channel.mode.__set__ with the engine's answer r on a
\* handle whose device is in the bootloader
SetModeRefused(d, c, m, r) ==
  /\ d \in devices
  /\ d \in samba
  /\ LET res == SetModeResult(r) IN
     last' = [Outcome("set_mode", res.kind, res.code) EXCEPT
                !.dev = d, !.via = c, !.val = <<m>>]
  /\ UNCHANGED <<envVars, available, devices, queue_size, cap, state, cancelled, rate,
                 run, loop, done, acq, inq, dropped, out, played, mode, rd, sc, hist>>

(* ---------------------- samba_mode: specification ---------------------- *)
\* a request on the handle of device d, answered as the engine answers
HandleOp(d) ==
  \/ \E r \in HandleAnswers(d) : r = 0 /\ \E n \in 0..1 : ReadCall(d, n, 0, -1)
  \/ \E r \in HandleAnswers(d), t \in {-1, 0} : r < 0 /\ ReadFail(d, t, -1, "status", r)
  \/ \E r \in HandleAnswers(d) : r = 0 /\ DeviceWrite(d, Ramp(1), 0, FALSE, 0)
  \/ \E r \in HandleAnswers(d) : r < 0 /\ WriteFail(d, "status", r)
  \/ \E r \in HandleAnswers(d), c \in Chans : r = 0 /\ SetMode(d, c, "SVMI")
  \/ \E r \in HandleAnswers(d), c \in Chans : r < 0 /\ SetModeRefused(d, c, "SVMI", r)
  \/ \E r \in HandleAnswers(d) : Calibration(d, r)
  \/ \E r \in HandleAnswers(d), b \in BOOLEAN : WriteCalibration(d, b, r)
  \/ \E r \in HandleAnswers(d), bm \in RequestTypes :
        CtrlTransfer(d, bm, <<48>>, 0, r)
  \/ \E e \in {0} \cup NegCodes : SambaMode(d, e)

NextSamba ==
  \/ \E n \in {0, 1} : Start(n, 0)
  \/ \E d \in Devices : LoopStep(d)
  \/ \E d \in Devices : HandleOp(d)

SpecSamba == InitRead /\ [][NextSamba]_vars

(* ======================= claims on samba_mode ========================== *)
\* C18, as claimed: once samba_mode() has succeeded on a handle, every
\* operation on it (read, write, set mode, calibration, ctrl_transfer,
\* samba_mode) raises an error, and no read waits on it.
C18_SambaIsTerminal ==
  /\ [][\A d \in Devices : (d \in samba /\ HandleOp(d))
          => last'.kind \notin {"none", "return"}]_vars
  /\ [](rd.on => rd.dev \notin samba)

(* --------------------- binding: Session.queue_size --------------------- *)
\* the sizes the client assigns
QueueSizes == 1..(QueueSize + 1)

\* libsmu.pyx:107-108  the setter stores size in m_queue_size and touches
\* nothing else: the capacity in force c stays what configure fixed
QueueSizeSet_Applies(size, c) == [queue_size |-> size, cap |-> size]
QueueSizeSet(size, c) == [queue_size |-> size, cap |-> c]

\* libsmu.pyx:103-108  no check of the session's state or of the value
SetQueueSize(size) ==
  /\ sc = "none"
  /\ ~rd.on
  /\ LET w == QueueSizeSet(size, cap) IN
     /\ queue_size' = w.queue_size
     /\ cap' = w.cap
  /\ last' = [NoOut EXCEPT !.op = "set_queue_size", !.kind = "return",
                           !.val = <<size>>]
  /\ UNCHANGED <<envVars, available, devices, state, cancelled, rate, run, loop, done,
                 acq, inq, dropped, out, played, mode, rd, sc, hist>>

NextQueue ==
  \/ \E size \in QueueSizes : SetQueueSize(size)
  \/ Configure(0)
  \/ Start(QueueSize + 1, 0)
  \/ \E d \in Devices : LoopStep(d)
  \/ \E d \in Devices : ReadCall(d, MaxRead, 0, -1)
  \/ \E d \in Devices : DeviceWrite(d, Ramp(QueueSize + 1), 0, FALSE, 0)

SpecQueue == InitRead /\ [][NextQueue]_vars

CancelStep ==
  \/ CancelCall
  \/ \E d \in Devices : LoopAck(d)
  \/ \E e \in {0} \cup NegCodes : CancelReturn(e)

\* a step of a read whose timeout is 0 or positive
TimedReadStep ==
  \/ \E d \in Devices, n \in 0..MaxRead, t \in Timeouts : t >= 0 /\ ReadCall(d, n, t, -1)
  \/ rd.on /\ rd.timeout >= 0 /\ (ReadFill \/ ReadReturn)
  \/ \E d \in Devices, t \in Timeouts, f \in {"system", "runtime", "status"},
        r \in NegCodes : t >= 0 /\ ReadFail(d, t, -1, f, r)

C20_TimeoutExpired ==
  /\ last.op = "read" /\ last.t > 0 /\ ~last.imm
  /\ Len(last.val) < last.n
  /\ state = "RUNNING" /\ loop[1]

====
